---- MODULE Spec2Model ----
(***************************************************************************)
(* Model of src/kernel/client.c: the client aggregate, the message         *)
(* dispatcher (ceph_dispatch, handle_monmap, got_first_map), the mount     *)
(* coordinator (ceph_mount), the root opener (open_root_inode) and the     *)
(* process-wide client counter (get/put_client_counter,                    *)
(* ceph_create_client, ceph_destroy_client).                               *)
(***************************************************************************)
EXTENDS Integers, Naturals, Sequences, FiniteSets, TLC

(* ------------------------------ bounds -------------------------------- *)
\* message-delivery threads that may run ceph_dispatch concurrently
NThreads == 2
\* messages delivered to ceph_dispatch in one behaviour
MaxMsgs == 3
\* largest epoch a map announcement carries (0 is a decodable epoch too)
MaxEpoch == 2
\* largest entity number the monitor puts in hdr.dst.name.num
MaxClientNum == 1
\* largest epoch announced while ceph_mount runs
MountMaxEpoch == 1
\* calls of ceph_mount made one after another on the same client
MaxMounts == 2
\* threads that create and destroy client aggregates concurrently
NClients == 3
\* calls of ceph_create_client in one behaviour
MaxCreates == 4
\* largest args->num_mon
MaxMon == 3

(* ------------------------- program constants -------------------------- *)
EINTR == 4
EIO == 5
ENOMEM == 12
EINVAL == 22
\* int attempts = 10;
MountAttempts == 10
\* while (client->mounting < 7)
AllMounted == 7
\* find_first_zero_bit(&client->mounting, 4) == 3
MountingBits == 4
FirstZeroWhenReady == 3

(* ------------------------------ state --------------------------------- *)
VARIABLES
    \* struct ceph_client
    mounting,           \* client->mounting, the readiness bit mask
    monmap_epoch,       \* client->monc.monmap->epoch
    mdsmap,             \* client->mdsc.mdsmap: 0 = NULL, else its epoch
    osdmap,             \* client->osdc.osdmap: 0 = NULL, else its epoch
    whoami,             \* client->whoami
    inst_name,          \* client->msgr->inst.name.num (-1: not yet bound)
    mount_completion,   \* client->mount_completion.done
    \* observation of calls made by the code
    completeCalls,      \* number of complete(&client->mount_completion) calls
    triggers,           \* triggers[num]: number of got_first_map(client, num) calls
    whoamiAssigns,      \* number of assignments at line 204
    \* one ceph_dispatch activation per delivery thread
    dpc, dmsg, dhad, dfirst, dold, dput,
    ndispatched,
    \* the thread in ceph_mount (and in open_root_inode, which it calls)
    mpc,                \* position in ceph_mount / open_root_inode
    attempts,           \* int attempts
    werr,               \* int err of ceph_mount, as set by the wait of line 163
    mret,               \* value returned by ceph_mount
    mcalls,             \* calls of ceph_mount so far
    sent,               \* ceph_msg_send calls made by the current call
    mexit,              \* the return statement the current call left by
    opened,             \* open_root_inode calls made by the current call
    \* open_root_inode
    req,                \* 0: no request object, 1: created by this call
    reqPuts,            \* ceph_mdsc_put_request(req) calls of this call
    result,             \* rinfo.head->result of the reply
    trace_nr,           \* rinfo.trace_nr
    err,                \* int err
    oret,               \* value returned by open_root_inode
    alloc_fs,           \* int alloc_fs
    mnt_inode,          \* 0: NULL, 1: set by ceph_fill_trace
    pmnt_root,          \* *pmnt_root, 0: NULL
    rootIputs,          \* iput(root_inode) calls of this call
    mntIputs,           \* iput(mnt_inode) calls of this call, mnt_inode non-NULL
    ofail,              \* the step of open_root_inode that failed in this call
    \* the superblock and the inodes, which outlive a call
    s_root,             \* client->sb->s_root, 0: NULL, 1: a root dentry
    root_irefs,         \* references held on the root inode
    rootAllocs,         \* successful d_alloc_root calls so far
    ncaps,              \* capabilities bound by ceph_add_cap so far
    nr_pin,             \* ci->i_nr_by_mode[FILE_MODE_PIN] of the mount inode
    \* process-wide state shared by all clients
    ceph_num_clients,   \* static int ceph_num_clients
    ceph_client_spinlock, \* 0: unlocked, else the thread holding it
    wq_up,              \* the work queues exist
    wqDoubleInit,       \* ceph_workqueue_init was called with them existing
    wqBadShutdown,      \* ceph_workqueue_shutdown was called without them
                        \* existing, or while another client held the counter
    cpc,                \* cpc[c]: position of thread c in create / destroy
    ncreates,           \* calls of ceph_create_client so far
    \* the monitor selection of ceph_mount, lines 149-156
    rbyte,              \* the byte get_random_bytes stores in r
    char_signed,        \* whether char is a signed type in this build
    num_mon,            \* args->num_mon
    which,              \* int which
    ppc                 \* "idle", then "picked" once line 150 has run

clientVars == <<mounting, monmap_epoch, mdsmap, osdmap, whoami, inst_name,
                mount_completion, completeCalls, triggers, whoamiAssigns>>
dispVars == <<dpc, dmsg, dhad, dfirst, dold, dput, ndispatched>>
mountVars == <<mpc, attempts, mret, mcalls, sent, mexit, opened, werr>>
mountVars_but_pc == <<attempts, mret, mcalls, sent, mexit, opened, werr>>
openVars == <<req, reqPuts, result, trace_nr, err, oret, alloc_fs, mnt_inode,
              pmnt_root, rootIputs, mntIputs, ofail>>
sbVars == <<s_root, root_irefs, rootAllocs, ncaps, nr_pin>>
lifeVars == <<ceph_num_clients, ceph_client_spinlock, wq_up, wqDoubleInit,
              wqBadShutdown, cpc, ncreates>>
pickVars == <<rbyte, char_signed, num_mon, which, ppc>>
vars == <<clientVars, dispVars, mountVars, openVars, sbVars, lifeVars, pickVars>>

\* everything ceph_dispatch never touches
restVars == <<mountVars, openVars, sbVars, lifeVars, pickVars>>

Clients == 1..NClients

Threads == 1..NThreads

(* ------------------------- bit operations ----------------------------- *)
RECURSIVE Pow2(_)
Pow2(n) == IF n = 0 THEN 1 ELSE 2 * Pow2(n - 1)

test_bit(nr, word) == (word \div Pow2(nr)) % 2 = 1

set_bit(nr, word) == IF test_bit(nr, word) THEN word ELSE word + Pow2(nr)

\* index of the lowest clear bit among the first `size` bits, or `size`
find_first_zero_bit(word, size) ==
    IF \E i \in 0..(size - 1) : ~test_bit(i, word)
    THEN CHOOSE i \in 0..(size - 1) :
            /\ ~test_bit(i, word)
            /\ \A j \in 0..(i - 1) : test_bit(j, word)
    ELSE size

(* ----------------------------- messages ------------------------------- *)
MapTypes == {"MON_MAP", "MDS_MAP", "OSD_MAP"}
OtherTypes == {"STATFS_REPLY", "CLIENT_SESSION", "CLIENT_REPLY",
               "CLIENT_REQUEST_FORWARD", "CLIENT_FILECAPS", "OSD_OPREPLY"}
\* a type tag that no case of the switch names (e.g. CEPH_MSG_PING)
UnknownTypes == {"PING"}
AllTypes == MapTypes \cup OtherTypes \cup UnknownTypes

\* type: hdr.type; epoch: the epoch encoded in the payload; ok: whether the
\* payload decodes; dst: hdr.dst.name.num
MapMessages(maxEpoch, maxNum) ==
    [type : {"MON_MAP"}, epoch : 0..maxEpoch, ok : {TRUE}, dst : 0..maxNum]
    \cup [type : {"MON_MAP"}, epoch : {0}, ok : {FALSE}, dst : {0}]
    \cup [type : {"MDS_MAP", "OSD_MAP"}, epoch : 0..maxEpoch, ok : {TRUE}, dst : {0}]
    \cup [type : {"MDS_MAP", "OSD_MAP"}, epoch : {0}, ok : {FALSE}, dst : {0}]

Messages ==
    MapMessages(MaxEpoch, MaxClientNum)
    \cup [type : OtherTypes \cup UnknownTypes, epoch : {0}, ok : {TRUE}, dst : {0}]

\* the announcements delivered while ceph_mount runs, all addressed to
\* client0 (ceph_mount never reads the identity)
MountMessages == MapMessages(MountMaxEpoch, 0)

NoMsg == [type |-> "NONE", epoch |-> 0, ok |-> TRUE, dst |-> 0]

\* got_first_map's `num` for each map announcement type
MapNum(type) == CASE type = "MON_MAP" -> 0
                  [] type = "MDS_MAP" -> 1
                  [] type = "OSD_MAP" -> 2

\* the local map the dispatcher looks at for `had`
LocalMap(type) == CASE type = "MON_MAP" -> monmap_epoch
                    [] type = "MDS_MAP" -> mdsmap
                    [] type = "OSD_MAP" -> osdmap

(* ------------------- ceph_dispatch, one step at a time ---------------- *)
\* lines 291-298 and 343-345: read the type tag and select the case; the
\* default case only logs and falls through to ceph_msg_put
DispatchEnter(t, msgs) ==
    /\ dpc[t] \in {"idle", "ret"}
    /\ ndispatched < MaxMsgs
    /\ \E m \in msgs :
          /\ dmsg' = [dmsg EXCEPT ![t] = m]
          /\ dpc' = [dpc EXCEPT ![t] =
                        IF m.type \in MapTypes THEN "had"
                        ELSE IF m.type \in OtherTypes THEN "handler"
                        ELSE "put"]
    /\ dput' = [dput EXCEPT ![t] = 0]
    /\ ndispatched' = ndispatched + 1
    /\ UNCHANGED <<dhad, dfirst, dold>>
    /\ UNCHANGED <<clientVars, restVars>>

\* lines 301, 314, 334: had = <local map present> ? 1 : 0
DispatchHad(t) ==
    /\ dpc[t] = "had"
    /\ dhad' = [dhad EXCEPT ![t] = IF LocalMap(dmsg[t].type) # 0 THEN 1 ELSE 0]
    /\ dold' = [dold EXCEPT ![t] = LocalMap(dmsg[t].type)]
    /\ dpc' = [dpc EXCEPT ![t] =
                  IF dmsg[t].type = "MON_MAP" THEN "mon_first" ELSE "map_handle"]
    /\ UNCHANGED <<dmsg, dfirst, dput, ndispatched>>
    /\ UNCHANGED <<clientVars, restVars>>

\* handle_monmap, line 189: int first = (client->monc.monmap->epoch == 0)
HandleMonmapFirst(t) ==
    /\ dpc[t] = "mon_first"
    /\ dfirst' = [dfirst EXCEPT ![t] = IF monmap_epoch = 0 THEN 1 ELSE 0]
    /\ dpc' = [dpc EXCEPT ![t] = "mon_decode"]
    /\ UNCHANGED <<dmsg, dhad, dold, dput, ndispatched>>
    /\ UNCHANGED <<clientVars, restVars>>

\* the same lines with the early return of line 198 leaving ceph_dispatch
\* as well, past the ceph_msg_put of line 347
HandleMonmapDecode_ReturnsFromDispatch(t) ==
    /\ dpc[t] = "mon_decode"
    /\ IF dmsg[t].ok
       THEN /\ monmap_epoch' = dmsg[t].epoch
            /\ dpc' = [dpc EXCEPT ![t] = "mon_ident"]
       ELSE /\ UNCHANGED monmap_epoch
            /\ dpc' = [dpc EXCEPT ![t] = "ret"]
    /\ UNCHANGED <<dmsg, dhad, dfirst, dold, dput, ndispatched>>
    /\ UNCHANGED <<mounting, mdsmap, osdmap, whoami, inst_name, mount_completion,
                   completeCalls, triggers, whoamiAssigns, restVars>>

\* handle_monmap, lines 193-201: decode; on failure return to the caller,
\* otherwise free the old map and install the decoded one, whatever its epoch
HandleMonmapDecode(t) ==
    /\ dpc[t] = "mon_decode"
    /\ IF dmsg[t].ok
       THEN /\ monmap_epoch' = dmsg[t].epoch
            /\ dpc' = [dpc EXCEPT ![t] = "mon_ident"]
       ELSE /\ UNCHANGED monmap_epoch
            /\ dpc' = [dpc EXCEPT ![t] = "edge"]
    /\ UNCHANGED <<dmsg, dhad, dfirst, dold, dput, ndispatched>>
    /\ UNCHANGED <<mounting, mdsmap, osdmap, whoami, inst_name, mount_completion,
                   completeCalls, triggers, whoamiAssigns, restVars>>

\* handle_monmap, lines 203-208: the first map assigns the identity
HandleMonmapIdent(t) ==
    /\ dpc[t] = "mon_ident"
    /\ IF dfirst[t] = 1
       THEN /\ whoami' = dmsg[t].dst
            /\ inst_name' = dmsg[t].dst
            /\ whoamiAssigns' = whoamiAssigns + 1
       ELSE UNCHANGED <<whoami, inst_name, whoamiAssigns>>
    /\ dpc' = [dpc EXCEPT ![t] = "edge"]
    /\ UNCHANGED <<dmsg, dhad, dfirst, dold, dput, ndispatched>>
    /\ UNCHANGED <<mounting, monmap_epoch, mdsmap, osdmap, mount_completion,
                   completeCalls, triggers, restVars>>

\* ceph_mdsc_handle_map / ceph_osdc_handle_map (lines 315, 335 call them):
\* a map that decodes and is newer than the local one replaces it
HandleMap(cur, m) == IF m.ok /\ m.epoch > cur THEN m.epoch ELSE cur

DispatchHandleMap(t) ==
    /\ dpc[t] = "map_handle"
    /\ IF dmsg[t].type = "MDS_MAP"
       THEN mdsmap' = HandleMap(mdsmap, dmsg[t]) /\ UNCHANGED osdmap
       ELSE osdmap' = HandleMap(osdmap, dmsg[t]) /\ UNCHANGED mdsmap
    /\ dpc' = [dpc EXCEPT ![t] = "edge"]
    /\ UNCHANGED <<dmsg, dhad, dfirst, dold, dput, ndispatched>>
    /\ UNCHANGED <<mounting, monmap_epoch, whoami, inst_name, mount_completion,
                   completeCalls, triggers, whoamiAssigns, restVars>>

\* lines 303, 316, 336: if (!had && <local map present>) got_first_map(...)
DispatchEdge(t) ==
    /\ dpc[t] = "edge"
    /\ dpc' = [dpc EXCEPT ![t] =
                  IF dhad[t] = 0 /\ LocalMap(dmsg[t].type) # 0
                  THEN "set_bit" ELSE "put"]
    /\ UNCHANGED <<dmsg, dhad, dfirst, dold, dput, ndispatched>>
    /\ UNCHANGED <<clientVars, restVars>>

\* got_first_map, line 213: set_bit(num, &client->mounting)
GotFirstMapSet(t) ==
    /\ dpc[t] = "set_bit"
    /\ mounting' = set_bit(MapNum(dmsg[t].type), mounting)
    /\ triggers' = [triggers EXCEPT ![MapNum(dmsg[t].type)] = @ + 1]
    /\ dpc' = [dpc EXCEPT ![t] = "kick"]
    /\ UNCHANGED <<dmsg, dhad, dfirst, dold, dput, ndispatched>>
    /\ UNCHANGED <<monmap_epoch, mdsmap, osdmap, whoami, inst_name,
                   mount_completion, completeCalls, whoamiAssigns, restVars>>

\* got_first_map, lines 216-219: kick the mount when bits 0..2 are all set
GotFirstMapKick(t) ==
    /\ dpc[t] = "kick"
    /\ IF find_first_zero_bit(mounting, MountingBits) = FirstZeroWhenReady
       THEN /\ mount_completion' = mount_completion + 1
            /\ completeCalls' = completeCalls + 1
       ELSE UNCHANGED <<mount_completion, completeCalls>>
    /\ dpc' = [dpc EXCEPT ![t] = "put"]
    /\ UNCHANGED <<dmsg, dhad, dfirst, dold, dput, ndispatched>>
    /\ UNCHANGED <<mounting, monmap_epoch, mdsmap, osdmap, whoami, inst_name,
                   triggers, whoamiAssigns, restVars>>

\* lines 308-310, 319-330, 339-341: handlers of the other subsystems; they
\* touch neither the maps nor the readiness set
DispatchOther(t) ==
    /\ dpc[t] = "handler"
    /\ dpc' = [dpc EXCEPT ![t] = "put"]
    /\ UNCHANGED <<dmsg, dhad, dfirst, dold, dput, ndispatched>>
    /\ UNCHANGED <<clientVars, restVars>>

\* line 347: ceph_msg_put(msg), then return
DispatchPut(t) ==
    /\ dpc[t] = "put"
    /\ dput' = [dput EXCEPT ![t] = @ + 1]
    /\ dhad' = [dhad EXCEPT ![t] = 0]
    /\ dfirst' = [dfirst EXCEPT ![t] = 0]
    /\ dold' = [dold EXCEPT ![t] = 0]
    /\ dpc' = [dpc EXCEPT ![t] = "ret"]
    /\ UNCHANGED <<dmsg, ndispatched>>
    /\ UNCHANGED <<clientVars, restVars>>

(* ------------------------------ ceph_mount ---------------------------- *)
\* line 145, char r: the value of r holding byte b; char is a signed type
\* on some builds and an unsigned one on others
CharValue(b, signed) == IF signed /\ b >= 128 THEN b - 256 ELSE b

\* lines 149-150: which = r % args->num_mon, with C's truncating remainder
MonitorIndex(r, n) ==
    IF r >= 0 THEN r % n ELSE -((-r) % n)

\* lines 149-156: draw the byte, compute the index and address the join
\* request to mon_addr[which]
PickMonitor ==
    /\ ppc = "idle"
    /\ which' = MonitorIndex(CharValue(rbyte, char_signed), num_mon)
    /\ ppc' = "picked"
    /\ UNCHANGED <<rbyte, char_signed, num_mon>>
    /\ UNCHANGED <<clientVars, dispVars, mountVars, openVars, sbVars, lifeVars>>

\* the same lines with the readiness set cleared on entry
MountStart_ResetsReadiness ==
    /\ mpc \in {"idle", "done"}
    /\ mcalls < MaxMounts
    /\ mcalls' = mcalls + 1
    /\ attempts' = MountAttempts
    /\ sent' = 0
    /\ opened' = 0
    /\ werr' = 0
    /\ mexit' = "none"
    /\ mret' = 0
    /\ mpc' = "loop"
    /\ req' = 0 /\ reqPuts' = 0 /\ result' = 0 /\ trace_nr' = 0 /\ err' = 0
    /\ oret' = 0 /\ alloc_fs' = 0 /\ mnt_inode' = 0 /\ pmnt_root' = 0
    /\ rootIputs' = 0 /\ mntIputs' = 0 /\ ofail' = "none"
    /\ mounting' = 0
    /\ UNCHANGED <<monmap_epoch, mdsmap, osdmap, whoami, inst_name,
                   mount_completion, completeCalls, triggers, whoamiAssigns>>
    /\ UNCHANGED sbVars
    /\ UNCHANGED <<dispVars, lifeVars, pickVars>>

\* lines 139-147: entry; the locals of the call start afresh
MountStart ==
    /\ mpc \in {"idle", "done"}
    /\ mcalls < MaxMounts
    /\ mcalls' = mcalls + 1
    /\ attempts' = MountAttempts
    /\ sent' = 0
    /\ opened' = 0
    /\ werr' = 0
    /\ mexit' = "none"
    /\ mret' = 0
    /\ mpc' = "loop"
    /\ req' = 0 /\ reqPuts' = 0 /\ result' = 0 /\ trace_nr' = 0 /\ err' = 0
    /\ oret' = 0 /\ alloc_fs' = 0 /\ mnt_inode' = 0 /\ pmnt_root' = 0
    /\ rootIputs' = 0 /\ mntIputs' = 0 /\ ofail' = "none"
    /\ UNCHANGED <<clientVars, sbVars>>
    /\ UNCHANGED <<dispVars, lifeVars, pickVars>>

\* the same line with the number of maps (3) for the mask of their bits (7)
MountLoop_CountsMaps ==
    /\ mpc = "loop"
    /\ mpc' = IF mounting < 3 THEN "send" ELSE "open"
    /\ UNCHANGED <<attempts, mret, mcalls, sent, mexit, opened, werr>>
    /\ UNCHANGED <<clientVars, openVars, sbVars>>
    /\ UNCHANGED <<dispVars, lifeVars, pickVars>>

\* line 148: while (client->mounting < 7)
MountLoop ==
    /\ mpc = "loop"
    /\ mpc' = IF mounting < AllMounted THEN "send" ELSE "open"
    /\ UNCHANGED <<attempts, mret, mcalls, sent, mexit, opened, werr>>
    /\ UNCHANGED <<clientVars, openVars, sbVars>>
    /\ UNCHANGED <<dispVars, lifeVars, pickVars>>

\* lines 149-159: pick a monitor, build the join request and send it; a
\* failed ceph_msg_new returns its error at once
MountSend ==
    /\ mpc = "send"
    /\ \/ /\ sent' = sent + 1
          /\ mpc' = "wait"
          /\ UNCHANGED <<mret, mexit>>
       \/ /\ mret' = -ENOMEM
          /\ mexit' = "nomsg"
          /\ mpc' = "done"
          /\ UNCHANGED sent
    /\ UNCHANGED <<attempts, mcalls, opened, werr>>
    /\ UNCHANGED <<clientVars, openVars, sbVars>>
    /\ UNCHANGED <<dispVars, lifeVars, pickVars>>

\* line 163: err = wait_for_completion_timeout(&client->mount_completion,
\* 6*HZ): a pending completion is consumed (time left > 0), otherwise the
\* wait times out (0) or is broken off by a signal (-EINTR)
MountWait ==
    /\ mpc = "wait"
    /\ \/ /\ mount_completion > 0
          /\ mount_completion' = mount_completion - 1
          /\ werr' = 1
       \/ /\ mount_completion = 0
          /\ werr' = 0
          /\ UNCHANGED mount_completion
       \/ /\ mount_completion = 0
          /\ werr' = -EINTR
          /\ UNCHANGED mount_completion
    /\ mpc' = "check"
    /\ UNCHANGED <<attempts, mret, mcalls, sent, mexit, opened>>
    /\ UNCHANGED <<mounting, monmap_epoch, mdsmap, osdmap, whoami, inst_name,
                   completeCalls, triggers, whoamiAssigns>>
    /\ UNCHANGED <<openVars, sbVars>>
    /\ UNCHANGED <<dispVars, lifeVars, pickVars>>

\* the same lines with `attempts-- == 0` for `--attempts == 0`
MountCheck_PostDecrement ==
    /\ mpc = "check"
    /\ IF werr = -EINTR
       THEN /\ mret' = werr
            /\ mexit' = "intr"
            /\ mpc' = "done"
            /\ UNCHANGED attempts
       ELSE IF mounting = AllMounted
       THEN /\ mpc' = "open"
            /\ UNCHANGED <<attempts, mret, mexit>>
       ELSE /\ attempts' = attempts - 1
            /\ IF attempts = 0
               THEN /\ mret' = -EIO
                    /\ mexit' = "timeout"
                    /\ mpc' = "done"
               ELSE /\ mpc' = "loop"
                    /\ UNCHANGED <<mret, mexit>>
    /\ UNCHANGED <<mcalls, sent, opened, werr>>
    /\ UNCHANGED <<clientVars, openVars, sbVars>>
    /\ UNCHANGED <<dispVars, lifeVars, pickVars>>

\* the same lines without the test of line 164
MountCheck_IgnoresInterrupt ==
    /\ mpc = "check"
    /\ IF mounting = AllMounted
       THEN /\ mpc' = "open"
            /\ UNCHANGED <<attempts, mret, mexit>>
       ELSE /\ attempts' = attempts - 1
            /\ IF attempts - 1 = 0
               THEN /\ mret' = -EIO
                    /\ mexit' = "timeout"
                    /\ mpc' = "done"
               ELSE /\ mpc' = "loop"
                    /\ UNCHANGED <<mret, mexit>>
    /\ UNCHANGED <<mcalls, sent, opened, werr>>
    /\ UNCHANGED <<clientVars, openVars, sbVars>>
    /\ UNCHANGED <<dispVars, lifeVars, pickVars>>

\* the same lines with the test of line 169 ahead of the test of line 166
MountCheck_CountsBeforeReady ==
    /\ mpc = "check"
    /\ IF werr = -EINTR
       THEN /\ mret' = werr
            /\ mexit' = "intr"
            /\ mpc' = "done"
            /\ UNCHANGED attempts
       ELSE /\ attempts' = attempts - 1
            /\ IF attempts - 1 = 0
               THEN /\ mret' = -EIO
                    /\ mexit' = "timeout"
                    /\ mpc' = "done"
               ELSE /\ mpc' = IF mounting = AllMounted THEN "open" ELSE "loop"
                    /\ UNCHANGED <<mret, mexit>>
    /\ UNCHANGED <<mcalls, sent, opened, werr>>
    /\ UNCHANGED <<clientVars, openVars, sbVars>>
    /\ UNCHANGED <<dispVars, lifeVars, pickVars>>

\* lines 164-170: an interrupted wait returns at once; otherwise leave the
\* loop when ready, else use up one attempt and fail when none is left
MountCheck ==
    /\ mpc = "check"
    /\ IF werr = -EINTR
       THEN /\ mret' = werr
            /\ mexit' = "intr"
            /\ mpc' = "done"
            /\ UNCHANGED attempts
       ELSE IF mounting = AllMounted
       THEN /\ mpc' = "open"
            /\ UNCHANGED <<attempts, mret, mexit>>
       ELSE /\ attempts' = attempts - 1
            /\ IF attempts - 1 = 0
               THEN /\ mret' = -EIO
                    /\ mexit' = "timeout"
                    /\ mpc' = "done"
               ELSE /\ mpc' = "loop"
                    /\ UNCHANGED <<mret, mexit>>
    /\ UNCHANGED <<mcalls, sent, opened, werr>>
    /\ UNCHANGED <<clientVars, openVars, sbVars>>
    /\ UNCHANGED <<dispVars, lifeVars, pickVars>>

\* lines 174-178: if ((err = open_root_inode(...)) < 0) return err; return 0
MountOpenReturn ==
    /\ mpc = "open_ret"
    /\ mret' = IF oret < 0 THEN oret ELSE 0
    /\ mexit' = "open"
    /\ mpc' = "done"
    /\ UNCHANGED <<attempts, mcalls, sent, opened, werr>>
    /\ UNCHANGED <<clientVars, openVars, sbVars>>
    /\ UNCHANGED <<dispVars, lifeVars, pickVars>>

(* --------------------------- open_root_inode -------------------------- *)
\* negative codes ceph_mdsc_do_request may return
RpcErrors == {-EIO}
\* values of rinfo.head->result a reply may carry
ResultCodes == {-EINVAL, 0, 1}

\* lines 63-65: create the OPEN request; IS_ERR(req) returns its error
OpenCreateRequest ==
    /\ mpc = "open"
    /\ opened' = opened + 1
    /\ \/ /\ req' = 1
          /\ mpc' = "do_req"
          /\ UNCHANGED oret
       \/ /\ oret' = -ENOMEM
          /\ mpc' = "open_ret"
          /\ UNCHANGED req
    /\ UNCHANGED <<attempts, mret, mcalls, sent, mexit, werr>>
    /\ UNCHANGED <<reqPuts, result, trace_nr, err, alloc_fs, mnt_inode,
                   pmnt_root, rootIputs, mntIputs>>
    /\ UNCHANGED <<clientVars, sbVars>>
    /\ UNCHANGED <<dispVars, lifeVars, pickVars>>
    /\ ofail' = IF mpc' = "open_ret" THEN "create_request" ELSE ofail

\* lines 66-70: if ((err = ceph_mdsc_do_request(mdsc, req)) < 0) return err;
\* otherwise the reply is in req->r_reply_info
OpenDoRequest ==
    /\ mpc = "do_req"
    /\ \/ \E e \in RpcErrors :
             /\ err' = e
             /\ oret' = e
             /\ mpc' = "open_ret"
             /\ UNCHANGED <<result, trace_nr>>
       \/ \E rc \in ResultCodes, nr \in 0..1 :
             /\ err' = 0
             /\ result' = rc
             /\ trace_nr' = nr
             /\ mpc' = "reply"
             /\ UNCHANGED oret
    /\ UNCHANGED <<req, reqPuts, alloc_fs, mnt_inode, pmnt_root, rootIputs, mntIputs>>
    /\ UNCHANGED <<mountVars_but_pc, clientVars, sbVars>>
    /\ UNCHANGED <<dispVars, lifeVars, pickVars>>
    /\ ofail' = IF mpc' = "open_ret" THEN "do_request" ELSE ofail

\* lines 72-80: a non-zero result or an empty trace goes to out
OpenCheckReply ==
    /\ mpc = "reply"
    /\ IF result # 0
       THEN err' = result /\ mpc' = "out"
       ELSE IF trace_nr = 0
            THEN err' = -EINVAL /\ mpc' = "out"
            ELSE err' = 0 /\ mpc' = "root"
    /\ UNCHANGED <<req, reqPuts, result, trace_nr, oret, alloc_fs, mnt_inode,
                   pmnt_root, rootIputs, mntIputs>>
    /\ UNCHANGED <<mountVars_but_pc, clientVars, sbVars>>
    /\ UNCHANGED <<dispVars, lifeVars, pickVars>>
    /\ ofail' = IF result # 0 THEN "result"
               ELSE IF trace_nr = 0 THEN "empty_trace" ELSE ofail

\* the same lines without the test of line 82: allocate in any case
OpenRoot_AlwaysAllocates ==
    /\ mpc = "root"
    /\ \/ /\ err' = -ENOMEM
          /\ mpc' = "out"
          /\ UNCHANGED <<alloc_fs, s_root, root_irefs, rootAllocs>>
       \/ /\ alloc_fs' = 1
          /\ root_irefs' = root_irefs + 1
          /\ s_root' = 1
          /\ rootAllocs' = rootAllocs + 1
          /\ mpc' = "trace"
          /\ UNCHANGED err
       \/ /\ alloc_fs' = 1
          /\ root_irefs' = root_irefs + 1
          /\ s_root' = 0
          /\ err' = -ENOMEM
          /\ mpc' = "out2"
          /\ UNCHANGED rootAllocs
    /\ UNCHANGED <<req, reqPuts, result, trace_nr, oret, mnt_inode, pmnt_root,
                   rootIputs, mntIputs>>
    /\ UNCHANGED <<mountVars_but_pc, clientVars, ncaps, nr_pin>>
    /\ UNCHANGED <<dispVars, lifeVars, pickVars>>
    /\ ofail' = IF mpc' = "out" THEN "get_inode"
               ELSE IF mpc' = "out2" THEN "d_alloc_root" ELSE ofail

\* lines 82-100: allocate the root dentry when there is none, else reuse it
OpenRoot ==
    /\ mpc = "root"
    /\ IF s_root = 0
       THEN \/ /\ err' = -ENOMEM               \* ceph_get_inode fails
               /\ mpc' = "out"
               /\ UNCHANGED <<alloc_fs, s_root, root_irefs, rootAllocs>>
            \/ /\ alloc_fs' = 1                \* d_alloc_root succeeds
               /\ root_irefs' = root_irefs + 1
               /\ s_root' = 1
               /\ rootAllocs' = rootAllocs + 1
               /\ mpc' = "trace"
               /\ UNCHANGED err
            \/ /\ alloc_fs' = 1                \* d_alloc_root returns NULL
               /\ root_irefs' = root_irefs + 1
               /\ s_root' = 0
               /\ err' = -ENOMEM
               /\ mpc' = "out2"
               /\ UNCHANGED rootAllocs
       ELSE /\ mpc' = "trace"
            /\ UNCHANGED <<err, alloc_fs, s_root, root_irefs, rootAllocs>>
    /\ UNCHANGED <<req, reqPuts, result, trace_nr, oret, mnt_inode, pmnt_root,
                   rootIputs, mntIputs>>
    /\ UNCHANGED <<mountVars_but_pc, clientVars, ncaps, nr_pin>>
    /\ UNCHANGED <<dispVars, lifeVars, pickVars>>
    /\ ofail' = IF mpc' = "out" THEN "get_inode"
               ELSE IF mpc' = "out2" THEN "d_alloc_root" ELSE ofail

\* lines 102-107: decode the trace into the mount-path inode and dentry
OpenFillTrace ==
    /\ mpc = "trace"
    /\ \/ \E mi \in 0..1 :                     \* ceph_fill_trace fails
             /\ err' = -ENOMEM
             /\ mnt_inode' = mi
             /\ ofail' = "fill_trace"
             /\ mpc' = "out2"
             /\ UNCHANGED pmnt_root
       \/ \E mi \in 0..1 :                     \* *pmnt_root == NULL
             /\ err' = -ENOMEM
             /\ mnt_inode' = mi
             /\ ofail' = "no_mount_dentry"
             /\ mpc' = "out2"
             /\ UNCHANGED pmnt_root
       \/ /\ mnt_inode' = 1
          /\ pmnt_root' = 1
          /\ mpc' = "cap"
          /\ UNCHANGED <<err, ofail>>
    /\ UNCHANGED <<req, reqPuts, result, trace_nr, oret, alloc_fs, rootIputs, mntIputs>>
    /\ UNCHANGED <<mountVars_but_pc, clientVars, sbVars>>
    /\ UNCHANGED <<dispVars, lifeVars, pickVars>>

\* lines 110-124: bind the capability; on success pin the mount inode,
\* release the request and return 0
OpenAddCap ==
    /\ mpc = "cap"
    /\ \/ /\ err' = -ENOMEM                    \* IS_ERR(cap)
          /\ mpc' = "out2"
          /\ UNCHANGED <<ncaps, nr_pin, reqPuts, oret>>
       \/ /\ ncaps' = ncaps + 1
          /\ nr_pin' = nr_pin + 1
          /\ reqPuts' = reqPuts + 1
          /\ oret' = 0
          /\ mpc' = "open_ret"
          /\ UNCHANGED err
    /\ UNCHANGED <<req, result, trace_nr, alloc_fs, mnt_inode, pmnt_root,
                   rootIputs, mntIputs>>
    /\ UNCHANGED <<mountVars_but_pc, clientVars, s_root, root_irefs, rootAllocs>>
    /\ UNCHANGED <<dispVars, lifeVars, pickVars>>
    /\ ofail' = IF mpc' = "out2" THEN "add_cap" ELSE ofail

\* the same lines with iput(root_inode) not guarded by alloc_fs
OpenOut2_AlwaysPutsRoot ==
    /\ mpc = "out2"
    /\ root_irefs' = root_irefs - 1
    /\ rootIputs' = rootIputs + 1
    /\ mntIputs' = IF mnt_inode = 1 THEN mntIputs + 1 ELSE mntIputs
    /\ mpc' = "out"
    /\ UNCHANGED <<req, reqPuts, result, trace_nr, err, oret, alloc_fs,
                   mnt_inode, pmnt_root>>
    /\ UNCHANGED <<mountVars_but_pc, clientVars, s_root, rootAllocs, ncaps, nr_pin>>
    /\ UNCHANGED <<dispVars, lifeVars, pickVars>>
    /\ UNCHANGED ofail

\* lines 126-130: out2: if (alloc_fs) iput(root_inode); iput(mnt_inode)
OpenOut2 ==
    /\ mpc = "out2"
    /\ IF alloc_fs = 1
       THEN root_irefs' = root_irefs - 1 /\ rootIputs' = rootIputs + 1
       ELSE UNCHANGED <<root_irefs, rootIputs>>
    /\ mntIputs' = IF mnt_inode = 1 THEN mntIputs + 1 ELSE mntIputs
    /\ mpc' = "out"
    /\ UNCHANGED <<req, reqPuts, result, trace_nr, err, oret, alloc_fs,
                   mnt_inode, pmnt_root>>
    /\ UNCHANGED <<mountVars_but_pc, clientVars, s_root, rootAllocs, ncaps, nr_pin>>
    /\ UNCHANGED <<dispVars, lifeVars, pickVars>>
    /\ UNCHANGED ofail

\* lines 131-133: out: ceph_mdsc_put_request(req); return err
OpenOut ==
    /\ mpc = "out"
    /\ reqPuts' = reqPuts + 1
    /\ oret' = err
    /\ mpc' = "open_ret"
    /\ UNCHANGED <<req, result, trace_nr, err, alloc_fs, mnt_inode, pmnt_root,
                   rootIputs, mntIputs>>
    /\ UNCHANGED <<mountVars_but_pc, clientVars, sbVars>>
    /\ UNCHANGED <<dispVars, lifeVars, pickVars>>
    /\ UNCHANGED ofail

(* ------------- get_client_counter / put_client_counter ---------------- *)
\* the threads whose client is counted in ceph_num_clients: after the
\* increment of line 33 and before the decrement of line 40
Holding == {c \in Clients : cpc[c] \in {"get_unlock", "messenger", "monc",
                                         "live", "put_lock", "put_dec"}}

\* a lock that does not exclude: the caller goes ahead whoever holds it
spin_lock_NoExclusion(c) == ceph_client_spinlock' = c

\* lines 28, 39: spin_lock(&ceph_client_spinlock)
spin_lock(c) ==
    /\ ceph_client_spinlock = 0
    /\ ceph_client_spinlock' = c

\* lines 34, 45: spin_unlock(&ceph_client_spinlock)
spin_unlock(c) == ceph_client_spinlock' = 0

\* ceph_create_client, lines 233-239: allocate the aggregate (kzalloc may
\* fail, which returns at once) and enter get_client_counter
CreateAlloc(c) ==
    /\ cpc[c] = "none"
    /\ ncreates < MaxCreates
    /\ ncreates' = ncreates + 1
    /\ \/ cpc' = [cpc EXCEPT ![c] = "get_lock"]
       \/ UNCHANGED cpc
    /\ UNCHANGED <<ceph_num_clients, ceph_client_spinlock, wq_up,
                   wqDoubleInit, wqBadShutdown>>
    /\ UNCHANGED <<clientVars, dispVars, mountVars, openVars, sbVars, pickVars>>

\* get_client_counter, line 28
GetLock(c) ==
    /\ cpc[c] = "get_lock"
    /\ spin_lock(c)
    /\ cpc' = [cpc EXCEPT ![c] = "get_check"]
    /\ UNCHANGED <<ceph_num_clients, wq_up, wqDoubleInit, wqBadShutdown, ncreates>>
    /\ UNCHANGED <<clientVars, dispVars, mountVars, openVars, sbVars, pickVars>>

\* get_client_counter, lines 29-32: the first client sets up the work queues
GetCheck(c) ==
    /\ cpc[c] = "get_check"
    /\ IF ceph_num_clients = 0
       THEN /\ wqDoubleInit' = (wqDoubleInit \/ wq_up)
            /\ wq_up' = TRUE
       ELSE UNCHANGED <<wq_up, wqDoubleInit>>
    /\ cpc' = [cpc EXCEPT ![c] = "get_inc"]
    /\ UNCHANGED <<ceph_num_clients, ceph_client_spinlock, wqBadShutdown, ncreates>>
    /\ UNCHANGED <<clientVars, dispVars, mountVars, openVars, sbVars, pickVars>>

\* get_client_counter, line 33
GetInc(c) ==
    /\ cpc[c] = "get_inc"
    /\ ceph_num_clients' = ceph_num_clients + 1
    /\ cpc' = [cpc EXCEPT ![c] = "get_unlock"]
    /\ UNCHANGED <<ceph_client_spinlock, wq_up, wqDoubleInit, wqBadShutdown, ncreates>>
    /\ UNCHANGED <<clientVars, dispVars, mountVars, openVars, sbVars, pickVars>>

\* get_client_counter, line 34
GetUnlock(c) ==
    /\ cpc[c] = "get_unlock"
    /\ spin_unlock(c)
    /\ cpc' = [cpc EXCEPT ![c] = "messenger"]
    /\ UNCHANGED <<ceph_num_clients, wq_up, wqDoubleInit, wqBadShutdown, ncreates>>
    /\ UNCHANGED <<clientVars, dispVars, mountVars, openVars, sbVars, pickVars>>

\* ceph_create_client, lines 242-251: create the messenger, or goto fail
CreateMessenger(c) ==
    /\ cpc[c] = "messenger"
    /\ \/ cpc' = [cpc EXCEPT ![c] = "monc"]
       \/ cpc' = [cpc EXCEPT ![c] = "put_lock"]
    /\ UNCHANGED <<ceph_num_clients, ceph_client_spinlock, wq_up,
                   wqDoubleInit, wqBadShutdown, ncreates>>
    /\ UNCHANGED <<clientVars, dispVars, mountVars, openVars, sbVars, pickVars>>

\* ceph_create_client, lines 253-262: ceph_monc_init, or goto fail; then the
\* other two subsystem clients and return cl
CreateMonc(c) ==
    /\ cpc[c] = "monc"
    /\ \/ cpc' = [cpc EXCEPT ![c] = "live"]
       \/ cpc' = [cpc EXCEPT ![c] = "put_lock"]
    /\ UNCHANGED <<ceph_num_clients, ceph_client_spinlock, wq_up,
                   wqDoubleInit, wqBadShutdown, ncreates>>
    /\ UNCHANGED <<clientVars, dispVars, mountVars, openVars, sbVars, pickVars>>

\* ceph_destroy_client, lines 272-280: stop the mds client, destroy the
\* messenger and enter put_client_counter
DestroyClient(c) ==
    /\ cpc[c] = "live"
    /\ cpc' = [cpc EXCEPT ![c] = "put_lock"]
    /\ UNCHANGED <<ceph_num_clients, ceph_client_spinlock, wq_up,
                   wqDoubleInit, wqBadShutdown, ncreates>>
    /\ UNCHANGED <<clientVars, dispVars, mountVars, openVars, sbVars, pickVars>>

\* put_client_counter, line 39 (reached from lines 265 and 280)
PutLock(c) ==
    /\ cpc[c] = "put_lock"
    /\ spin_lock(c)
    /\ cpc' = [cpc EXCEPT ![c] = "put_dec"]
    /\ UNCHANGED <<ceph_num_clients, wq_up, wqDoubleInit, wqBadShutdown, ncreates>>
    /\ UNCHANGED <<clientVars, dispVars, mountVars, openVars, sbVars, pickVars>>

\* put_client_counter, line 40
PutDec(c) ==
    /\ cpc[c] = "put_dec"
    /\ ceph_num_clients' = ceph_num_clients - 1
    /\ cpc' = [cpc EXCEPT ![c] = "put_check"]
    /\ UNCHANGED <<ceph_client_spinlock, wq_up, wqDoubleInit, wqBadShutdown, ncreates>>
    /\ UNCHANGED <<clientVars, dispVars, mountVars, openVars, sbVars, pickVars>>

\* put_client_counter, lines 41-44: the last client shuts the work queues down
PutCheck(c) ==
    /\ cpc[c] = "put_check"
    /\ IF ceph_num_clients = 0
       THEN /\ wqBadShutdown' = (wqBadShutdown \/ ~wq_up \/ Holding # {})
            /\ wq_up' = FALSE
       ELSE UNCHANGED <<wq_up, wqBadShutdown>>
    /\ cpc' = [cpc EXCEPT ![c] = "put_unlock"]
    /\ UNCHANGED <<ceph_num_clients, ceph_client_spinlock, wqDoubleInit, ncreates>>
    /\ UNCHANGED <<clientVars, dispVars, mountVars, openVars, sbVars, pickVars>>

\* put_client_counter, line 45, then kfree(cl) (lines 266, 281) and return
PutUnlock(c) ==
    /\ cpc[c] = "put_unlock"
    /\ spin_unlock(c)
    /\ cpc' = [cpc EXCEPT ![c] = "none"]
    /\ UNCHANGED <<ceph_num_clients, wq_up, wqDoubleInit, wqBadShutdown, ncreates>>
    /\ UNCHANGED <<clientVars, dispVars, mountVars, openVars, sbVars, pickVars>>

(* ---------------------- construction of a client ---------------------- *)
\* ceph_create_client, lines 233-260 (kzalloc zeroes the aggregate;
\* ceph_monc_init installs an empty monitor map of epoch 0)
InitClient ==
    /\ mounting = 0
    /\ monmap_epoch = 0
    /\ mdsmap = 0
    /\ osdmap = 0
    /\ whoami = -1
    /\ inst_name = -1
    /\ mount_completion = 0
    /\ completeCalls = 0
    /\ triggers = [n \in 0..2 |-> 0]
    /\ whoamiAssigns = 0

InitDispatch ==
    /\ dpc = [t \in Threads |-> "idle"]
    /\ dmsg = [t \in Threads |-> NoMsg]
    /\ dhad = [t \in Threads |-> 0]
    /\ dfirst = [t \in Threads |-> 0]
    /\ dold = [t \in Threads |-> 0]
    /\ dput = [t \in Threads |-> 0]
    /\ ndispatched = 0

InitMount ==
    /\ mpc = "idle"
    /\ attempts = 0
    /\ mret = 0
    /\ mcalls = 0
    /\ sent = 0
    /\ mexit = "none"
    /\ opened = 0
    /\ werr = 0
    /\ req = 0 /\ reqPuts = 0 /\ result = 0 /\ trace_nr = 0 /\ err = 0
    /\ oret = 0 /\ alloc_fs = 0 /\ mnt_inode = 0 /\ pmnt_root = 0
    /\ rootIputs = 0 /\ mntIputs = 0 /\ ofail = "none"
    \* the superblock handed to ceph_create_client has no root yet
    /\ s_root = 0
    /\ root_irefs = 0
    /\ rootAllocs = 0
    /\ ncaps = 0
    /\ nr_pin = 0

\* lines 23-24: the static initialisers
InitLife ==
    /\ ceph_num_clients = 0
    /\ ceph_client_spinlock = 0
    /\ wq_up = FALSE
    /\ wqDoubleInit = FALSE
    /\ wqBadShutdown = FALSE
    /\ cpc = [c \in Clients |-> "none"]
    /\ ncreates = 0

\* no monitor selection under way
InitPickIdle ==
    /\ rbyte = 0
    /\ char_signed = FALSE
    /\ num_mon = 1
    /\ which = 0
    /\ ppc = "idle"

Init == InitClient /\ InitDispatch /\ InitMount /\ InitLife /\ InitPickIdle

\* the inputs of one monitor selection: any byte, either kind of char, any
\* configured number of monitors
InitPick ==
    /\ InitClient /\ InitDispatch /\ InitMount /\ InitLife
    /\ rbyte \in 0..255
    /\ char_signed \in BOOLEAN
    /\ num_mon \in 1..MaxMon
    /\ which = 0
    /\ ppc = "idle"

(* --------------------------- specifications --------------------------- *)
\* several delivery threads, every type tag
NextDispatch ==
    \E t \in Threads :
        \/ DispatchEnter(t, Messages)
        \/ DispatchHad(t)
        \/ HandleMonmapFirst(t)
        \/ HandleMonmapDecode(t)
        \/ HandleMonmapIdent(t)
        \/ DispatchHandleMap(t)
        \/ DispatchEdge(t)
        \/ GotFirstMapSet(t)
        \/ GotFirstMapKick(t)
        \/ DispatchOther(t)
        \/ DispatchPut(t)

SpecDispatch == Init /\ [][NextDispatch]_vars

\* one delivery thread: messages are dispatched one after another
NextSeq ==
    \/ DispatchEnter(1, Messages)
    \/ DispatchHad(1)
    \/ HandleMonmapFirst(1)
    \/ HandleMonmapDecode(1)
    \/ HandleMonmapIdent(1)
    \/ DispatchHandleMap(1)
    \/ DispatchEdge(1)
    \/ GotFirstMapSet(1)
    \/ GotFirstMapKick(1)
    \/ DispatchOther(1)
    \/ DispatchPut(1)

SpecSeq == Init /\ [][NextSeq]_vars

\* ceph_mount and open_root_inode on one thread, the map announcements
\* delivered by a transport thread meanwhile
Next ==
    \/ MountStart
    \/ MountLoop
    \/ MountSend
    \/ MountWait
    \/ MountCheck
    \/ MountOpenReturn
    \/ OpenCreateRequest
    \/ OpenDoRequest
    \/ OpenCheckReply
    \/ OpenRoot
    \/ OpenFillTrace
    \/ OpenAddCap
    \/ OpenOut2
    \/ OpenOut
    \/ DispatchEnter(1, MountMessages)
    \/ DispatchHad(1)
    \/ HandleMonmapFirst(1)
    \/ HandleMonmapDecode(1)
    \/ HandleMonmapIdent(1)
    \/ DispatchHandleMap(1)
    \/ DispatchEdge(1)
    \/ GotFirstMapSet(1)
    \/ GotFirstMapKick(1)
    \/ DispatchPut(1)

Spec == Init /\ [][Next]_vars

\* the announcements that count as a subsystem's first map: they decode
\* and leave the local map present
FirstMapMessages == {m \in MountMessages : m.ok /\ m.epoch > 0}

\* ceph_mount and one delivery thread that delivers first maps only
NextLive ==
    \/ MountStart
    \/ MountLoop
    \/ MountSend
    \/ MountWait
    \/ MountCheck
    \/ MountOpenReturn
    \/ OpenCreateRequest
    \/ OpenDoRequest
    \/ OpenCheckReply
    \/ OpenRoot
    \/ OpenFillTrace
    \/ OpenAddCap
    \/ OpenOut2
    \/ OpenOut
    \/ DispatchEnter(1, FirstMapMessages)
    \/ DispatchHad(1)
    \/ HandleMonmapFirst(1)
    \/ HandleMonmapDecode(1)
    \/ HandleMonmapIdent(1)
    \/ DispatchHandleMap(1)
    \/ DispatchEdge(1)
    \/ GotFirstMapSet(1)
    \/ GotFirstMapKick(1)
    \/ DispatchPut(1)

\* the mount thread is scheduled, and every wait of line 163 ends within its
\* timeout: each step of the loop of ceph_mount is eventually taken
SpecLive ==
    /\ Init /\ [][NextLive]_vars
    /\ WF_vars(MountLoop) /\ WF_vars(MountSend)
    /\ WF_vars(MountWait) /\ WF_vars(MountCheck)

\* threads creating and destroying client aggregates concurrently
NextClients ==
    \E c \in Clients :
        \/ CreateAlloc(c)
        \/ GetLock(c)
        \/ GetCheck(c)
        \/ GetInc(c)
        \/ GetUnlock(c)
        \/ CreateMessenger(c)
        \/ CreateMonc(c)
        \/ DestroyClient(c)
        \/ PutLock(c)
        \/ PutDec(c)
        \/ PutCheck(c)
        \/ PutUnlock(c)

SpecClients == Init /\ [][NextClients]_vars

\* one monitor selection, for every input
NextPick == PickMonitor

SpecPick == InitPick /\ [][NextPick]_vars

(* ------------------------------- claims ------------------------------- *)
\* a call of ceph_mount has returned
MountReturned == mpc = "done" /\ mcalls > 0

\* C1 as stated: when the readiness set never becomes complete and no wait
\* is interrupted, ceph_mount sends exactly MountAttempts join requests and
\* returns the timeout failure (-EIO) without calling open_root_inode.
C1_ExactlySendsThenTimeout ==
    (MountReturned /\ mounting < AllMounted /\ mexit # "intr")
        => (mret = -EIO /\ sent = MountAttempts /\ opened = 0)

\* C1 amended: the same, provided no ceph_msg_new of the call fails; and a
\* call never sends more than MountAttempts join requests.
C1_ExactlySendsUnlessNoMessage ==
    /\ sent <= MountAttempts
    /\ (MountReturned /\ mounting < AllMounted /\ mexit \notin {"intr", "nomsg"})
          => (mret = -EIO /\ mexit = "timeout" /\ sent = MountAttempts /\ opened = 0)

\* C1 witness: a call that timed out after its last attempt
C1_Witness ==
    MountReturned /\ mounting < AllMounted /\ mexit = "timeout" /\ sent = MountAttempts

\* C2: whenever ceph_mount returns 0, the three maps have epoch > 0, the
\* root dentry exists and a capability has been bound, whatever result code
\* the OPEN reply carried.
C2_SuccessMeansMounted ==
    (MountReturned /\ mret = 0)
        => (/\ monmap_epoch > 0 /\ mdsmap > 0 /\ osdmap > 0
            /\ s_root = 1
            /\ ncaps > 0 /\ pmnt_root = 1)

\* C3: under any interleaving of concurrent ceph_dispatch calls,
\* complete(&client->mount_completion) is called at most once.
C3_CompleteAtMostOnce == completeCalls <= 1

\* C4: with announcements dispatched one after another, got_first_map is
\* called for a kind only by an announcement that takes the local map from
\* epoch 0 to an epoch > 0, and at most once per kind.
C4_TriggeredOncePerKind ==
    /\ \A n \in 0..2 : triggers[n] <= 1
    /\ dpc[1] = "set_bit" => (dold[1] = 0 /\ LocalMap(dmsg[1].type) > 0)

\* C5: once the wait of ceph_mount has been interrupted (err == -EINTR), the
\* call sends no further join request, does not call open_root_inode, and
\* its next step is to return -EINTR, whatever attempts are left.
C5_InterruptFailsAtOnce ==
    [][(werr = -EINTR /\ mpc # "done")
          => (/\ sent' = sent
              /\ opened' = 0
              /\ mpc' # mpc => (mpc' = "done" /\ mret' = -EINTR))]_vars

\* C5 witness: a call that returned -EINTR with attempts left
C5_Witness == MountReturned /\ mret = -EINTR /\ werr = -EINTR /\ attempts > 1

\* C6: every call of ceph_dispatch releases its message exactly once
\* (ceph_msg_put), for every type tag and on every path of the handlers, and
\* not before the handler is through.
C6_MessagePutExactlyOnce ==
    \A t \in Threads :
        /\ dpc[t] = "ret" => dput[t] = 1
        /\ dpc[t] # "ret" => dput[t] = 0

\* C6 witness: a monitor map that failed to decode, dispatched and released
C6_Witness ==
    dpc[1] = "ret" /\ dmsg[1].type = "MON_MAP" /\ ~dmsg[1].ok /\ dput[1] = 1

\* C7: for every non-zero result code of the OPEN reply, ceph_mount returns
\* that code unchanged, the request is released, and the call allocates no
\* root dentry.
C7_NonZeroResultReturned ==
    (MountReturned /\ mexit = "open" /\ req = 1 /\ oret = err /\ result # 0)
        => (mret = result /\ reqPuts = 1 /\ alloc_fs = 0)

\* C8: after any sequence of ceph_mount calls on one client, at most one
\* root dentry has ever been allocated, and it is the one the superblock
\* keeps: a call that finds a root dentry reuses it.
C8_AtMostOneRootEntry ==
    /\ rootAllocs <= 1
    /\ s_root = 1 <=> rootAllocs = 1

\* C8 witness: a second call went through the root step with the dentry
\* of the first call
C8_Witness ==
    mcalls = 2 /\ mpc = "cap" /\ alloc_fs = 0 /\ s_root = 1 /\ rootAllocs = 1

\* C9: under any interleaving of creations and destructions,
\* ceph_num_clients counts the clients holding the counter, the work queues
\* are never set up twice in a row nor shut down while a client holds the
\* counter, and outside the critical section they exist exactly when the
\* count is above 0.
C9_CounterMatchesClients ==
    /\ ceph_num_clients = Cardinality(Holding)
    /\ ~wqDoubleInit
    /\ ~wqBadShutdown
    /\ Holding # {} => wq_up
    /\ ceph_client_spinlock = 0 => (wq_up <=> ceph_num_clients > 0)

\* C9 witness: one client gave the counter back while another stays live
C9_Witness ==
    \E c1, c2 \in Clients :
        /\ cpc[c1] = "live"
        /\ cpc[c2] = "put_unlock"
        /\ ceph_num_clients = 1
        /\ wq_up

\* C10: on every return of open_root_inode after the request was created,
\* the request has been released exactly once, and a failing RPC's code is
\* returned unchanged.
C10_RequestPutExactlyOnce ==
    (mpc \in {"open_ret", "done"} /\ req = 1)
        => (reqPuts = 1 /\ (err \in RpcErrors => oret = err))

\* open_root_inode is past its cleanup
OpenerLeft == mpc \in {"out", "open_ret", "done"}

\* the failures that go through out2
Out2Fails == {"d_alloc_root", "fill_trace", "no_mount_dentry", "add_cap"}

\* C11: when open_root_inode fails at a step after the root decision, the
\* root inode is released exactly when this call allocated the root
\* (alloc_fs), the mount-path inode is released whenever there is one, and a
\* root that existed before the call is never released.
C11_CleanupDiscipline ==
    /\ (OpenerLeft /\ ofail \in Out2Fails)
          => (rootIputs = alloc_fs /\ mntIputs = mnt_inode)
    /\ alloc_fs = 0 => rootIputs = 0

\* C11 witness: the second call reused the root, failed to bind the
\* capability and released the mount-path inode only
C11_Witness ==
    /\ OpenerLeft /\ ofail = "add_cap"
    /\ mcalls = 2 /\ alloc_fs = 0 /\ s_root = 1
    /\ rootIputs = 0 /\ mntIputs = 1

\* C12: the OPEN request is issued only once all three first maps have been
\* received, and a call of ceph_mount calls open_root_inode at most once.
C12_OpenAfterReadyOnce ==
    /\ opened <= 1
    /\ (opened = 1 \/ mpc = "open" \/ req = 1)
          => (mounting = AllMounted /\ \A n \in 0..2 : triggers[n] >= 1)

\* C12 witness: the root opener failed and the call returned its error
C12_Witness == MountReturned /\ mexit = "open" /\ mret < 0 /\ opened = 1

\* C13: for every byte drawn and every num_mon >= 1, the index chosen for
\* the join request lies in 0..num_mon-1.
C13_IndexInRange == ppc = "picked" => which \in 0..(num_mon - 1)

\* C14: a monitor-map announcement never replaces the local monitor map with
\* one of a lower epoch: once handle_monmap has run for an announcement, the
\* local epoch is at least the epoch the dispatcher saw before calling it
C14_MonmapEpochNeverDecreases ==
    (dmsg[1].type = "MON_MAP" /\ dpc[1] \in {"mon_ident", "edge"})
        => monmap_epoch >= dold[1]

\* C15: the identity is -1 until a monitor map has been processed, and is
\* assigned at most once, whatever the sequence or interleaving of dispatches
C15_IdentityAssignedOnce ==
    /\ whoamiAssigns <= 1
    /\ whoamiAssigns = 0 => whoami = -1

\* C20: whenever readiness bit 0 (the monitor map) is set, the identity has
\* been assigned
C20_MonBitImpliesIdentity == test_bit(0, mounting) => whoami # -1

\* positions of ceph_mount inside the wait loop and inside open_root_inode
LoopStates == {"loop", "send", "wait", "check"}
OpenerStates == {"open", "do_req", "reply", "root", "trace", "cap", "out2",
                 "out", "open_ret"}

\* C16 as stated: once the first maps of all three subsystems have been
\* dispatched, ceph_mount does not return from inside the wait loop (it goes
\* on to the root opener), and a call that reaches the opener without having
\* used up an attempt has sent exactly one join request or none
C16_ReadyMountOpens ==
    [][ /\ (mpc \in LoopStates /\ mounting = AllMounted) => mpc' # "done"
        /\ (mpc' = "open" /\ attempts' = MountAttempts) => sent' <= 1 ]_vars

\* C16, amended: once the first maps of all three subsystems have been
\* dispatched, ceph_mount never fails with the timeout error; it leaves the
\* loop for the root opener at its next test of the readiness set, unless the
\* wait was interrupted or the join request could not be allocated; when the
\* set is complete at the end of the first wait, exactly one join request
\* has been sent; and the call does leave the loop
C16_ReadyMountNeverTimesOut ==
    /\ [][ /\ (mpc \in LoopStates /\ mounting = AllMounted /\ mpc' = "done")
                 => mexit' \in {"intr", "nomsg"}
           /\ (mpc = "check" /\ mounting = AllMounted /\ werr # -EINTR
                 /\ mpc' # mpc) => (mpc' = "open" /\ sent' = sent)
           /\ (mpc = "loop" /\ mounting = AllMounted /\ mpc' # mpc)
                 => (mpc' = "open" /\ sent' = sent)
           /\ (mpc' = "open" /\ attempts' = MountAttempts) => sent' <= 1
           /\ (mpc = "check" /\ mpc' = "open" /\ attempts = MountAttempts)
                 => sent' = 1 ]_vars
    /\ (mpc \in LoopStates /\ mounting = AllMounted) ~> (mpc \notin LoopStates)

C16_Witness ==
    /\ MountReturned /\ mexit = "open" /\ mcalls = 1
    /\ sent = 1 /\ attempts = MountAttempts /\ werr = 1 /\ opened = 1

\* C17: readiness bits are never cleared; a later mount call leaves the loop
\* as soon as the set is complete; a call that finds the set complete at its
\* first test sends no join request and goes to the root opener, which sends
\* none either and never re-enters the loop
C17_UsableAfterFailure ==
    [][ /\ \A n \in 0..2 : test_bit(n, mounting) => test_bit(n, mounting')
        /\ (mpc = "loop" /\ sent = 0 /\ mounting = AllMounted /\ mpc' # mpc)
              => (mpc' = "open" /\ sent' = 0)
        /\ (mcalls >= 2 /\ mpc = "check" /\ werr # -EINTR
              /\ mounting = AllMounted /\ mpc' # mpc) => mpc' = "open"
        /\ (mpc \in OpenerStates) => (sent' = sent /\ mpc' \notin LoopStates)
      ]_vars

\* a second call that sent nothing and went through the opener, after a
\* first call whose opener allocated the root and failed (its inode
\* reference was dropped at out2)
C17_Witness ==
    /\ MountReturned /\ mcalls = 2 /\ mexit = "open" /\ sent = 0
    /\ mounting = AllMounted /\ alloc_fs = 0 /\ s_root = 1 /\ root_irefs = 0

\* C18: the capability count and the pinned-mode count of the mount inode
\* move together, and after the first mount call of a fresh client has
\* returned success both are 1
C18_SuccessPinsOnce ==
    /\ nr_pin = ncaps
    /\ (MountReturned /\ mcalls = 1 /\ mret = 0) => (ncaps = 1 /\ nr_pin = 1)

\* C19: when open_root_inode has returned and client->sb->s_root is set, this
\* call has not released the root inode's reference and the reference is held
C19_RecordedRootHoldsInode ==
    (mpc \in {"open_ret", "done"} /\ s_root = 1)
        => (rootIputs = 0 /\ root_irefs >= 1)

====
